---- MODULE Spec2Model ----
(***************************************************************************)
(* Model of src/app.py, the "Stock Stochastic Trade Analyzer": indicator   *)
(* computation, the entry filter, the trade simulation loop,               *)
(* classify_overlaps, compute_counts, calculate_scores and the batch loop  *)
(* over the symbol list.                                                   *)
(*                                                                         *)
(* Conventions.  Dates are positive day numbers, prices are integers in    *)
(* hundredths of a currency unit (round(x, 2) becomes rounding to an       *)
(* integer).  Floats are modelled as exact rationals [k, n, d] together    *)
(* with the two IEEE outcomes of a division by zero, NaN and infinity.     *)
(* Python's None is the out-of-band integer None.  Dictionary keys with a  *)
(* blank are spelled with an underscore (Entry_Date for "Entry Date").     *)
(***************************************************************************)
EXTENDS Integers, Sequences, FiniteSets, TLC

VARIABLES
    pc,                  \* position of the computation
    df,                  \* the bars of one symbol (line 103)
    entries,             \* indices of the rows passing the entry filter (line 131)
    last_date,           \* line 133
    trades_list,         \* line 132 / argument of classify_overlaps
    trades_with_overlap, \* line 163 / result of classify_overlaps
    total_trades,        \* line 164 / argument of compute_counts
    counts,              \* line 165
    scores,              \* line 166: <<normal, bonus, weighted>>
    logged_in,           \* "tv" in st.session_state (line 92)
    symbols,             \* line 22
    i,                   \* loop index of line 101 (number of symbols visited)
    visited,             \* history: per visited list entry, what happened
    summary,             \* line 96
    trade_logs,          \* line 97
    df_summary           \* line 193

vars == <<pc, df, entries, last_date, trades_list, trades_with_overlap,
          total_trades, counts, scores, logged_in, symbols, i, visited,
          summary, trade_logs, df_summary>>

\* ------------------------------------------------------------------ bounds
MaxDay == 3
MaxTrades == 3
MaxScoreTrades == 3
MaxTail == 4
MaxSymbols == 3

\* ------------------------------------------------------------ Python values
None == -1

Truthy(x) == x # None

\* --------------------------------------------------------------- the trades
\* The dictionary appended at lines 145-152 (closed) and 154-161 (open).
TargetHitTrade(entry_date, entry_price, exit_date, exit_price) ==
    [Entry_Date |-> entry_date, Entry_Price |-> entry_price,
     Exit_Date |-> exit_date, Exit_Hit_Price |-> exit_price,
     Outcome |-> "Target Hit", Holding_Days |-> exit_date - entry_date]

OpenTrade(entry_date, entry_price) ==
    [Entry_Date |-> entry_date, Entry_Price |-> entry_price,
     Exit_Date |-> None, Exit_Hit_Price |-> None,
     Outcome |-> "Open Trade", Holding_Days |-> None]

\* ------------------------------------------------------- classify_overlaps
\* sorted(trades_list, key=Entry Date): Python's sort is stable.
RECURSIVE SortedDroppingTies(_)
SortedDroppingTies(s) ==
    IF s = <<>> THEN <<>>
    ELSE LET n == Len(s)
             t == s[n]
             front == SortedDroppingTies(SubSeq(s, 1, n - 1))
             m == Len(front)
             k == Cardinality({j \in 1..m : front[j].Entry_Date <= t.Entry_Date})
         IN IF \E j \in 1..m : front[j].Entry_Date = t.Entry_Date THEN front
            ELSE SubSeq(front, 1, k) \o <<t>> \o SubSeq(front, k + 1, m)

RECURSIVE SortedByEntryDate(_)
SortedByEntryDate(s) ==
    IF s = <<>> THEN <<>>
    ELSE LET n == Len(s)
             t == s[n]
             front == SortedByEntryDate(SubSeq(s, 1, n - 1))
             k == Cardinality({j \in 1..(n - 1) : front[j].Entry_Date <= t.Entry_Date})
         IN SubSeq(front, 1, k) \o <<t>> \o SubSeq(front, k + 1, n - 1)

\* line 28: the effective interval of one trade
EffectiveIntervalNoLastDate(t, ld) ==
    <<t.Entry_Date, IF Truthy(t.Exit_Date) THEN t.Exit_Date ELSE t.Entry_Date>>

EffectiveInterval(t, ld) ==
    <<t.Entry_Date, IF Truthy(t.Exit_Date) THEN t.Exit_Date ELSE ld>>

\* line 34
Intersects(s_i, e_i, s_j, e_j) == (s_i <= e_j) /\ (e_i >= s_j)

\* line 36
ContainedStrict(s_i, e_i, s_j, e_j) == s_i > s_j /\ e_i <= e_j

Contained(s_i, e_i, s_j, e_j) == s_i >= s_j /\ e_i <= e_j

\* lines 31-40: the inner loop from index j on, with its break
RECURSIVE ScanBreakOnIntersect(_, _, _, _)
ScanBreakOnIntersect(intervals, ii, j, partial) ==
    IF j > Len(intervals) THEN [fully |-> FALSE, partial |-> partial]
    ELSE IF ii = j THEN ScanBreakOnIntersect(intervals, ii, j + 1, partial)
    ELSE LET s_i == intervals[ii][1]
             e_i == intervals[ii][2]
             s_j == intervals[j][1]
             e_j == intervals[j][2]
         IN IF Intersects(s_i, e_i, s_j, e_j)
            THEN IF Contained(s_i, e_i, s_j, e_j)
                 THEN [fully |-> TRUE, partial |-> partial]
                 ELSE [fully |-> FALSE, partial |-> TRUE]
            ELSE ScanBreakOnIntersect(intervals, ii, j + 1, partial)

RECURSIVE Scan(_, _, _, _)
Scan(intervals, ii, j, partial) ==
    IF j > Len(intervals) THEN [fully |-> FALSE, partial |-> partial]
    ELSE IF ii = j THEN Scan(intervals, ii, j + 1, partial)
    ELSE LET s_i == intervals[ii][1]
             e_i == intervals[ii][2]
             s_j == intervals[j][1]
             e_j == intervals[j][2]
         IN IF Intersects(s_i, e_i, s_j, e_j)
            THEN IF Contained(s_i, e_i, s_j, e_j)
                 THEN [fully |-> TRUE, partial |-> partial]
                 ELSE Scan(intervals, ii, j + 1, TRUE)
            ELSE Scan(intervals, ii, j + 1, partial)

\* line 41
OverlapType(fully, partial) ==
    IF fully THEN "Fully Overlapped"
    ELSE IF partial THEN "Partially Overlapped" ELSE "No Overlap"

\* lines 26-42
classify_overlaps(tl, ld) ==
    LET trades_sorted == SortedByEntryDate(tl)
        intervals == [k \in 1..Len(trades_sorted) |->
                         EffectiveInterval(trades_sorted[k], ld)]
    IN [k \in 1..Len(trades_sorted) |->
           LET r == Scan(intervals, k, 1, FALSE)
           IN trades_sorted[k] @@ ("Overlap_Type" :> OverlapType(r.fully, r.partial))]

\* ------------------------------------------------------------------ floats
\* A float is [k |-> "num", n, d] (the rational n/d, d > 0, in lowest terms),
\* [k |-> "inf", n |-> sign, d |-> 0] or [k |-> "nan", n |-> 0, d |-> 0].
RECURSIVE GCD(_, _)
GCD(a, b) == IF b = 0 THEN a ELSE GCD(b, a % b)

Abs(x) == IF x < 0 THEN -x ELSE x

Sign(x) == IF x < 0 THEN -1 ELSE IF x > 0 THEN 1 ELSE 0

Num(n, d) ==
    LET g == GCD(Abs(n), Abs(d))
        sg == IF d < 0 THEN -1 ELSE 1
    IN [k |-> "num", n |-> sg * (n \div g), d |-> sg * (d \div g)]

NaN == [k |-> "nan", n |-> 0, d |-> 0]

Inf(sg) == [k |-> "inf", n |-> sg, d |-> 0]

IsNum(x) == x.k = "num"

IsNaN(x) == x.k = "nan"

FAdd(a, b) ==
    IF IsNaN(a) \/ IsNaN(b) THEN NaN
    ELSE IF IsNum(a) /\ IsNum(b) THEN Num(a.n * b.d + b.n * a.d, a.d * b.d)
    ELSE IF IsNum(a) THEN b
    ELSE IF IsNum(b) THEN a
    ELSE IF a.n = b.n THEN a ELSE NaN

FNeg(a) == IF IsNaN(a) THEN NaN ELSE [a EXCEPT !.n = -a.n]

FSub(a, b) == FAdd(a, FNeg(b))

FMul(a, b) ==
    IF IsNaN(a) \/ IsNaN(b) THEN NaN
    ELSE IF IsNum(a) /\ IsNum(b) THEN Num(a.n * b.n, a.d * b.d)
    ELSE IF Sign(a.n) * Sign(b.n) = 0 THEN NaN
    ELSE Inf(Sign(a.n) * Sign(b.n))

\* IEEE division as numpy performs it on float64 columns: x/0 is an infinity,
\* 0/0 is NaN, nothing is raised.  The sign of a zero is not tracked.
FDiv(a, b) ==
    IF IsNaN(a) \/ IsNaN(b) THEN NaN
    ELSE IF IsNum(a) /\ IsNum(b)
         THEN IF b.n = 0
              THEN IF a.n = 0 THEN NaN ELSE Inf(Sign(a.n))
              ELSE Num(a.n * b.d, a.d * b.n)
    ELSE IF IsNum(a) THEN Num(0, 1)
    ELSE IF IsNum(b) THEN Inf(a.n * (IF b.n < 0 THEN -1 ELSE 1))
    ELSE NaN

\* Comparisons: every comparison with NaN is False.
FLt(a, b) ==
    IF IsNaN(a) \/ IsNaN(b) THEN FALSE
    ELSE IF IsNum(a) /\ IsNum(b) THEN a.n * b.d < b.n * a.d
    ELSE IF IsNum(a) THEN b.n > 0
    ELSE IF IsNum(b) THEN a.n < 0
    ELSE a.n < b.n

FGt(a, b) == FLt(b, a)

FGe(a, b) == ~IsNaN(a) /\ ~IsNaN(b) /\ ~FLt(a, b)

\* Two decimals by truncation toward zero.
RoundTruncate(x) ==
    IF ~IsNum(x) THEN x
    ELSE LET m == x.n * 100
             fl == m \div x.d
         IN Num(IF m < 0 /\ fl * x.d # m THEN fl + 1 ELSE fl, 100)

\* round(x, 2) of Python 3: to the nearest hundredth, ties to even; NaN and
\* the infinities are returned unchanged.
Round2(x) ==
    IF ~IsNum(x) THEN x
    ELSE LET m == x.n * 100
             fl == m \div x.d
             rem == m - fl * x.d
             q == IF 2 * rem > x.d THEN fl + 1
                  ELSE IF 2 * rem < x.d THEN fl
                  ELSE IF fl % 2 = 0 THEN fl ELSE fl + 1
         IN Num(q, 100)

\* ---------------------------------------------------------- compute_counts
CountKeys ==
    {"<=5_days", "5_to_10_days", "10_to_20_days", "20_to_30_days", ">30_days",
     "Never Hit", "TargetHit_NoOverlap",
     "No Overlap", "Partially Overlapped", "Fully Overlapped"}

\* line 52: t.get("Overlap Type", "No Overlap")
OverlapOf(t) ==
    IF "Overlap_Type" \in DOMAIN t THEN t.Overlap_Type ELSE "No Overlap"

\* lines 57-61
HoldingBucket(hd) ==
    IF hd <= 5 THEN "<=5_days"
    ELSE IF hd <= 10 THEN "5_to_10_days"
    ELSE IF hd <= 20 THEN "10_to_20_days"
    ELSE IF hd <= 30 THEN "20_to_30_days"
    ELSE ">30_days"

\* lines 52-66: the keys one trade increments
KeysOfDroppingOpen(t) ==
    IF t.Outcome = "Target Hit"
    THEN {OverlapOf(t), HoldingBucket(t.Holding_Days)}
         \cup (IF OverlapOf(t) = "No Overlap" THEN {"TargetHit_NoOverlap"} ELSE {})
    ELSE {OverlapOf(t)}

KeysOf(t) ==
    IF t.Outcome = "Target Hit"
    THEN {OverlapOf(t), HoldingBucket(t.Holding_Days)}
         \cup (IF OverlapOf(t) = "No Overlap" THEN {"TargetHit_NoOverlap"} ELSE {})
    ELSE {OverlapOf(t), "Never Hit"}

\* lines 45-66: the raw counters after the loop
RawCounts(trades) ==
    [key \in CountKeys |->
        Cardinality({k \in 1..Len(trades) : key \in KeysOf(trades[k])})]

\* line 69
PercentageUnguarded(c, total) == FMul(FDiv(Num(c, 1), Num(total, 1)), Num(100, 1))

Percentage(c, total) ==
    IF total > 0 THEN FMul(FDiv(Num(c, 1), Num(total, 1)), Num(100, 1))
    ELSE Num(0, 1)

\* lines 44-71
compute_counts(trades, total) ==
    LET raw == RawCounts(trades)
    IN [key \in CountKeys |-> Percentage(raw[key], total)]

\* -------------------------------------------------------- calculate_scores
\* lines 74-80
normal_score(c) ==
    FAdd(FAdd(FAdd(FAdd(FMul(c["<=5_days"], Num(50, 100)),
                        FMul(c["5_to_10_days"], Num(25, 100))),
                   FMul(c["10_to_20_days"], Num(125, 1000))),
              FMul(c["20_to_30_days"], Num(75, 1000))),
         FMul(c[">30_days"], Num(5, 100)))

\* lines 81-86
bonus_score(c) ==
    FSub(FAdd(FAdd(FMul(c["TargetHit_NoOverlap"], Num(20, 100)),
                   FMul(c["Partially Overlapped"], Num(15, 100))),
              FMul(c["Fully Overlapped"], Num(10, 100))),
         FMul(c["Never Hit"], Num(5, 100)))

\* lines 87-88: the weighted score is rounded from the unrounded sum
WeightedTruncated(c) == RoundTruncate(FAdd(normal_score(c), bonus_score(c)))

Weighted(c) == Round2(FAdd(normal_score(c), bonus_score(c)))

\* lines 73-88
calculate_scores(c) ==
    <<Round2(normal_score(c)), Round2(bonus_score(c)), Weighted(c)>>

\* -------------------------------------------------------------- indicators
StochWindow == 4
SmoothK == 3
SmoothD == 3
RSIWindow == 2
MAWindow == 200
StochLimit == 20
RSILimit == 15
TargetPercent == 105

\* A bar is [datetime, low, high, close] with prices in hundredths.
Price(c) == Num(c, 100)

MinOf(S) == CHOOSE x \in S : \A y \in S : x <= y

MaxOf(S) == CHOOSE x \in S : \A y \in S : y <= x

RECURSIVE SumF(_, _, _)
SumF(series, a, b) ==
    IF a > b THEN Num(0, 1)
    ELSE IF a = b THEN series[a]
    ELSE LET m == (a + b) \div 2
         IN FAdd(SumF(series, a, m), SumF(series, m + 1, b))

\* The rows a rolling window of w rows ending at row k covers.
WindowRows(k, w) == (IF k < w THEN 1 ELSE k - w + 1)..k

\* Series.rolling(w).mean() at row k, of a series given on WindowRows(k, w):
\* NaN until w rows exist and while the window holds a NaN; pandas turns an
\* infinity in the input into NaN first.
RollingMeanPartial(series, k, w) ==
    LET ok == {j \in WindowRows(k, w) : IsNum(series[j])}
    IN IF ok = {} THEN NaN
       ELSE FDiv(SumF([j \in WindowRows(k, w) |->
                          IF j \in ok THEN series[j] ELSE Num(0, 1)],
                      MinOf(WindowRows(k, w)), k),
                 Num(Cardinality(ok), 1))

RollingMean(series, k, w) ==
    IF k < w THEN NaN
    ELSE IF \E j \in WindowRows(k, w) : ~IsNum(series[j]) THEN NaN
    ELSE FDiv(SumF(series, k - w + 1, k), Num(w, 1))

\* lines 115-116: rolling(4).min() and rolling(4).max()
low_min(bars, k) ==
    IF k < StochWindow THEN NaN
    ELSE Price(MinOf({bars[j].low : j \in (k - StochWindow + 1)..k}))

high_max(bars, k) ==
    IF k < StochWindow THEN NaN
    ELSE Price(MaxOf({bars[j].high : j \in (k - StochWindow + 1)..k}))

\* line 117
raw_k(bars, k) ==
    FMul(Num(100, 1),
         FDiv(FSub(Price(bars[k].close), low_min(bars, k)),
              FSub(high_max(bars, k), low_min(bars, k))))

\* line 121: close.diff()
delta(bars, k) ==
    IF k = 1 THEN NaN ELSE FSub(Price(bars[k].close), Price(bars[k - 1].close))

\* lines 122-123: where() keeps a value only where the condition is True
gain(bars, k) ==
    IF FGt(delta(bars, k), Num(0, 1)) THEN delta(bars, k) ELSE Num(0, 1)

loss(bars, k) ==
    FNeg(IF FLt(delta(bars, k), Num(0, 1)) THEN delta(bars, k) ELSE Num(0, 1))

\* line 118
stochK(bars, k) ==
    RollingMean([j \in WindowRows(k, SmoothK) |-> raw_k(bars, j)], k, SmoothK)

\* line 119
stochD(bars, k) ==
    RollingMean([j \in WindowRows(k, SmoothD) |-> stochK(bars, j)], k, SmoothD)

\* lines 124-125
avg_gain(bars, k) ==
    RollingMean([j \in WindowRows(k, RSIWindow) |-> gain(bars, j)], k, RSIWindow)

avg_loss(bars, k) ==
    RollingMean([j \in WindowRows(k, RSIWindow) |-> loss(bars, j)], k, RSIWindow)

\* lines 126-127
RSI_2(bars, k) ==
    LET rs == FDiv(avg_gain(bars, k), avg_loss(bars, k))
    IN FSub(Num(100, 1), FDiv(Num(100, 1), FAdd(Num(1, 1), rs)))

\* line 128
DMA200(bars, k) ==
    RollingMean([j \in WindowRows(k, MAWindow) |-> Price(bars[j].close)],
                k, MAWindow)

\* line 131: one row of the boolean mask
\* The mask is the elementwise & of four boolean columns; the conjuncts are
\* written cheapest first (the 200-row average is NaN on the first 199 rows).
EntryCondition(bars, k) ==
    /\ FGt(Price(bars[k].close), DMA200(bars, k))
    /\ FLt(RSI_2(bars, k), Num(RSILimit, 1))
    /\ FLt(stochK(bars, k), Num(StochLimit, 1))
    /\ FLt(stochD(bars, k), Num(StochLimit, 1))

\* The elements of a set of row numbers, in frame order.
InOrder(rows) ==
    [j \in 1..Cardinality(rows) |->
        CHOOSE m \in rows : Cardinality({x \in rows : x <= m}) = j]

\* lines 115-131: the row indices of entries, in frame order
EntryRows(bars) == InOrder({k \in 1..Len(bars) : EntryCondition(bars, k)})

\* line 133
RECURSIVE MaxDate(_, _, _)
MaxDate(bars, a, b) ==
    IF a = b THEN bars[a].datetime
    ELSE LET m == (a + b) \div 2
             x == MaxDate(bars, a, m)
             y == MaxDate(bars, m + 1, b)
         IN IF x >= y THEN x ELSE y

LastDate(bars) == MaxDate(bars, 1, Len(bars))

\* -------------------------------------------------------- trade simulation
\* line 138
target_price(entry_price) == Round2(FMul(Num(TargetPercent, 100), entry_price))

\* lines 139-140: the rows of hit_target, in frame order
HitRowsFromEntryBar(bars, entry_date, target) ==
    InOrder({k \in 1..Len(bars) : /\ bars[k].datetime >= entry_date
                                  /\ FGe(Price(bars[k].high), target)})

HitRows(bars, entry_date, target) ==
    InOrder({k \in 1..Len(bars) : /\ bars[k].datetime > entry_date
                                  /\ FGe(Price(bars[k].high), target)})

\* lines 136-161: the trade of one entry row
TradeOf(bars, row) ==
    LET entry_date == bars[row].datetime
        entry_price == Price(bars[row].close)
        hit_target == HitRows(bars, entry_date, target_price(entry_price))
    IN IF hit_target # <<>>
       THEN TargetHitTrade(entry_date, entry_price,
                           bars[hit_target[1]].datetime,
                           Price(bars[hit_target[1]].high))
       ELSE OpenTrade(entry_date, entry_price)

\* lines 135-161
SimulateTrades(bars, rows) == [k \in 1..Len(rows) |-> TradeOf(bars, rows[k])]

\* ------------------------------------------------- inputs and idle values
SeqsUpTo(S, n) == UNION {[1..k -> S] : k \in 0..n}

\* Every trade the simulation loop can append over the days 1..MaxDay: an
\* exit lies strictly after the entry, an open trade has no exit.
InputTrades ==
    {TargetHitTrade(p[1], Price(100), p[2], Price(105)) :
        p \in {q \in (1..MaxDay) \X (1..MaxDay) : q[1] < q[2]}}
    \cup {OpenTrade(e, Price(100)) : e \in 1..MaxDay}

LatestDate(tl) ==
    MaxOf({1} \cup {tl[k].Entry_Date : k \in 1..Len(tl)}
              \cup {tl[k].Exit_Date : k \in 1..Len(tl)})

OverlapTypes == {"No Overlap", "Partially Overlapped", "Fully Overlapped"}

HoldingDaysSet == {5, 6, 10, 11, 20, 21, 30, 31}

\* Classified trades as compute_counts receives them: every holding-day
\* boundary from both sides, every overlap type on closed and open trades.
ScoreTrades ==
    {TargetHitTrade(1, Price(100), 1 + hd, Price(105)) @@ ("Overlap_Type" :> "No Overlap") :
        hd \in HoldingDaysSet}
    \cup {TargetHitTrade(1, Price(100), 1 + hd, Price(105)) @@ ("Overlap_Type" :> ty) :
        hd \in {5, 31}, ty \in OverlapTypes}
    \cup {OpenTrade(1, Price(100)) @@ ("Overlap_Type" :> ty) : ty \in OverlapTypes}

IdleBatch ==
    /\ logged_in = TRUE
    /\ symbols = <<>>
    /\ i = 0
    /\ visited = <<>>
    /\ summary = <<>>
    /\ trade_logs = <<>>
    /\ df_summary = <<>>

IdleScores ==
    /\ total_trades = 0
    /\ counts = <<>>
    /\ scores = <<>>

batchVars == <<logged_in, symbols, i, visited, summary, trade_logs, df_summary>>

\* ----------------------------------------------------------------- actions
\* line 163
Classify ==
    /\ pc = "classify"
    /\ trades_with_overlap' = classify_overlaps(trades_list, last_date)
    /\ pc' = "score"
    /\ UNCHANGED <<df, entries, last_date, trades_list, total_trades, counts,
                   scores>>
    /\ UNCHANGED batchVars

\* lines 164-166
Score ==
    /\ pc = "score"
    /\ total_trades' = Len(trades_with_overlap)
    /\ counts' = compute_counts(trades_with_overlap, total_trades')
    /\ scores' = calculate_scores(counts')
    /\ pc' = "scored"
    /\ UNCHANGED <<df, entries, last_date, trades_list, trades_with_overlap>>
    /\ UNCHANGED batchVars

\* classify_overlaps on every list of at most MaxTrades trades
InitOverlap ==
    /\ pc = "classify"
    /\ df = <<>>
    /\ entries = <<>>
    /\ trades_list \in SeqsUpTo(InputTrades, MaxTrades)
    /\ last_date \in LatestDate(trades_list)..MaxDay
    /\ trades_with_overlap = <<>>
    /\ IdleScores
    /\ IdleBatch

NextOverlap == Classify

SpecOverlap == InitOverlap /\ [][NextOverlap]_vars

\* compute_counts and calculate_scores on every list of at most
\* MaxScoreTrades classified trades
InitScore ==
    /\ pc = "score"
    /\ df = <<>>
    /\ entries = <<>>
    /\ trades_list = <<>>
    /\ last_date = 1
    /\ trades_with_overlap \in SeqsUpTo(ScoreTrades, MaxScoreTrades)
    /\ IdleScores
    /\ IdleBatch

NextScore == Score

SpecScore == InitScore /\ [][NextScore]_vars

\* ------------------------------------------------------------ bar series
\* The frames get_hist is taken to return: PrefixLen quiet bars around 2.00,
\* TopLen bars at 4.20 (with a range, or flat so that the 4-bar stochastic
\* window has zero range), then up to MaxTail free bars, each a move of 0.20
\* down, 0.20 up or none from the previous close.  Dates are trading days:
\* five per week, so that calendar days and bar counts differ.
TopLen == StochWindow + SmoothK + SmoothD - 2

PrefixLens == {0, MAWindow - TopLen - 2, MAWindow - TopLen - 1}

Moves == {"D", "U", "F"}

BaseBar == [low |-> 180, high |-> 220, close |-> 200]

TopBar(shape) ==
    IF shape = "ranged" THEN [low |-> 420, high |-> 440, close |-> 420]
    ELSE [low |-> 420, high |-> 420, close |-> 420]

MoveBar(c, m) ==
    IF m = "D" THEN [low |-> c - 20, high |-> c, close |-> c - 20]
    ELSE IF m = "U" THEN [low |-> c, high |-> c + 20, close |-> c + 20]
    ELSE [low |-> c, high |-> c, close |-> c]

RECURSIVE TailBars(_, _)
TailBars(c, moves) ==
    IF moves = <<>> THEN <<>>
    ELSE LET b == MoveBar(c, Head(moves))
         IN <<b>> \o TailBars(b.close, Tail(moves))

DateOf(k) == k + 2 * ((k - 1) \div 5)

Bars(prefix_len, shape, moves) ==
    LET shapes == [k \in 1..prefix_len |-> BaseBar]
                  \o [k \in 1..TopLen |-> TopBar(shape)]
                  \o TailBars(TopBar(shape).close, moves)
    IN [k \in 1..Len(shapes) |->
          [datetime |-> DateOf(k), low |-> shapes[k].low,
           high |-> shapes[k].high, close |-> shapes[k].close]]

\* --------------------------------------------------- one symbol's pipeline
\* lines 115-133
ComputeEntries ==
    /\ pc = "indicators"
    /\ entries' = EntryRows(df)
    /\ last_date' = LastDate(df)
    /\ pc' = "simulate"
    /\ UNCHANGED <<df, trades_list, trades_with_overlap, total_trades, counts,
                   scores>>
    /\ UNCHANGED batchVars

\* lines 135-161
Simulate ==
    /\ pc = "simulate"
    /\ trades_list' = SimulateTrades(df, entries)
    /\ pc' = "classify"
    /\ UNCHANGED <<df, entries, last_date, trades_with_overlap, total_trades,
                   counts, scores>>
    /\ UNCHANGED batchVars

InitPipeline ==
    /\ pc = "indicators"
    /\ \E prefix_len \in PrefixLens, shape \in {"ranged", "flat"},
          moves \in SeqsUpTo(Moves, MaxTail) :
            df = Bars(prefix_len, shape, moves)
    /\ entries = <<>>
    /\ last_date = 1
    /\ trades_list = <<>>
    /\ trades_with_overlap = <<>>
    /\ IdleScores
    /\ IdleBatch

NextPipeline == ComputeEntries \/ Simulate \/ Classify \/ Score

SpecPipeline == InitPipeline /\ [][NextPipeline]_vars

\* ----------------------------------------------------------- the batch loop
SymbolNames == {"AVALON", "BLISSGVS"}

\* The frames a symbol's get_hist may return in the batch model: one that
\* yields trades and one too short for any entry.
BatchFrames ==
    {Bars(MAWindow - TopLen - 1, "ranged", <<"D", "D", "U", "U">>),
     Bars(0, "ranged", <<"D">>)}

\* lines 163-184: the summary record of one symbol
SummaryRecord(symbol, tw) ==
    LET total == Len(tw)
        c == compute_counts(tw, total)
        sc == calculate_scores(c)
    IN [Stock |-> symbol, Total_Trades |-> total,
        Pct |-> [key \in CountKeys |-> Round2(c[key])],
        Normal_Score |-> sc[1], Bonus_Points |-> sc[2],
        Weighted_Score |-> sc[3]]

\* lines 109-163: from the frame to the classified trades
TradesWithOverlap(bars) ==
    classify_overlaps(SimulateTrades(bars, EntryRows(bars)), LastDate(bars))

FrameTrades == [bars \in BatchFrames |-> TradesWithOverlap(bars)]

pipeVars == <<df, entries, last_date, trades_list, trades_with_overlap,
              total_trades, counts, scores>>

\* lines 91-99
RunAnalysis ==
    /\ pc = "start"
    /\ IF logged_in THEN pc' = "loop" ELSE pc' = "done"
    /\ summary' = <<>>
    /\ trade_logs' = <<>>
    /\ UNCHANGED <<logged_in, symbols, i, visited, df_summary>>
    /\ UNCHANGED pipeVars

\* lines 103 and 187-190: get_hist raises
FetchRaisesAborts ==
    /\ pc = "loop"
    /\ i < Len(symbols)
    /\ pc' = "done"
    /\ UNCHANGED <<logged_in, symbols, i, visited, summary, trade_logs, df_summary>>
    /\ UNCHANGED pipeVars

FetchRaises ==
    /\ pc = "loop"
    /\ i < Len(symbols)
    /\ i' = i + 1
    /\ visited' = Append(visited, [symbol |-> symbols[i + 1], outcome |-> "error"])
    /\ UNCHANGED <<pc, logged_in, symbols, summary, trade_logs, df_summary>>
    /\ UNCHANGED pipeVars

\* lines 103-107: get_hist returns None or an empty frame
FetchNoData ==
    /\ pc = "loop"
    /\ i < Len(symbols)
    /\ i' = i + 1
    /\ visited' = Append(visited, [symbol |-> symbols[i + 1], outcome |-> "no data"])
    /\ UNCHANGED <<pc, logged_in, symbols, summary, trade_logs, df_summary>>
    /\ UNCHANGED pipeVars

\* lines 103-166 and 187-190: a frame arrives and its processing raises
\* (a missing column, say) before line 168
ProcessRaises ==
    /\ pc = "loop"
    /\ i < Len(symbols)
    /\ \E bars \in BatchFrames : bars # <<>>
    /\ i' = i + 1
    /\ visited' = Append(visited, [symbol |-> symbols[i + 1], outcome |-> "error"])
    /\ UNCHANGED <<pc, logged_in, symbols, summary, trade_logs, df_summary>>
    /\ UNCHANGED pipeVars

\* line 186: trade_logs[symbol] = trades_with_overlap
LogTrades(logs, symbol, tw) == (symbol :> tw) @@ logs

\* lines 168-184: summary.append
AppendSummary(sm, rec) == Append(sm, rec)

\* lines 103-190: a frame arrives and the iteration completes; the frame and
\* everything computed from it are locals of the iteration
ProcessCompletes ==
    /\ pc = "loop"
    /\ i < Len(symbols)
    /\ \E bars \in BatchFrames :
          /\ summary' = AppendSummary(summary,
                            SummaryRecord(symbols[i + 1], FrameTrades[bars]))
          /\ trade_logs' = LogTrades(trade_logs, symbols[i + 1], FrameTrades[bars])
    /\ i' = i + 1
    /\ visited' = Append(visited, [symbol |-> symbols[i + 1], outcome |-> "ok"])
    /\ UNCHANGED <<pc, logged_in, symbols, df_summary>>
    /\ UNCHANGED pipeVars

\* line 193: sort_values(by="Weighted Score", ascending=False); the order of
\* equal scores is whatever the sort leaves
SortedDescending(s) ==
    \A a \in 1..Len(s), b \in 1..Len(s) :
        a < b => ~FLt(s[a].Weighted_Score, s[b].Weighted_Score)

Orderings(n) == {f \in [1..n -> 1..n] : \A a, b \in 1..n : f[a] = f[b] => a = b}

\* lines 192-222
Render ==
    /\ pc = "loop"
    /\ i = Len(symbols)
    /\ \E f \in Orderings(Len(summary)) :
          /\ df_summary' = [k \in 1..Len(summary) |-> summary[f[k]]]
          /\ SortedDescending(df_summary')
    /\ pc' = "done"
    /\ UNCHANGED <<logged_in, symbols, i, visited, summary, trade_logs>>
    /\ UNCHANGED pipeVars

InitBatch ==
    /\ pc = "start"
    /\ logged_in \in BOOLEAN
    /\ symbols \in SeqsUpTo(SymbolNames, MaxSymbols)
    /\ i = 0
    /\ visited = <<>>
    /\ summary = <<>>
    /\ trade_logs = <<>>
    /\ df_summary = <<>>
    /\ df = <<>>
    /\ entries = <<>>
    /\ last_date = 1
    /\ trades_list = <<>>
    /\ trades_with_overlap = <<>>
    /\ IdleScores

NextBatch ==
    \/ RunAnalysis
    \/ FetchRaises
    \/ FetchNoData
    \/ ProcessRaises
    \/ ProcessCompletes
    \/ Render

SpecBatch == InitBatch /\ [][NextBatch]_vars

\* =================================================================== claims
\* The effective interval as the claims state it: [Entry Date, Exit Date, or
\* last_date when the trade has no exit].
ClaimEnd(t) == IF t.Exit_Date = None THEN last_date ELSE t.Exit_Date

ContainedBy(tw, k, j) ==
    /\ j # k
    /\ tw[j].Entry_Date <= tw[k].Entry_Date
    /\ ClaimEnd(tw[k]) <= ClaimEnd(tw[j])

IntersectedBy(tw, k, j) ==
    /\ j # k
    /\ tw[k].Entry_Date <= ClaimEnd(tw[j])
    /\ ClaimEnd(tw[k]) >= tw[j].Entry_Date

ContainedBySome(tw, k) == \E j \in 1..Len(tw) : ContainedBy(tw, k, j)

IntersectsSome(tw, k) == \E j \in 1..Len(tw) : IntersectedBy(tw, k, j)

Classified == pc = "score"

\* C1: a trade is "Fully Overlapped" exactly when some other trade of the
\* list contains its effective interval, however that other trade is
\* classified.
C1_FullyIffContained ==
    Classified =>
        \A k \in 1..Len(trades_with_overlap) :
            (trades_with_overlap[k].Overlap_Type = "Fully Overlapped")
                <=> ContainedBySome(trades_with_overlap, k)

C1_Witness ==
    /\ Classified
    /\ \E k, j \in 1..Len(trades_with_overlap) :
          /\ ContainedBy(trades_with_overlap, k, j)
          /\ ~ContainedBy(trades_with_overlap, j, k)
          /\ trades_with_overlap[j].Overlap_Type = "Fully Overlapped"
          /\ trades_with_overlap[k].Overlap_Type = "Fully Overlapped"
    /\ \E k \in 1..Len(trades_with_overlap) :
          trades_with_overlap[k].Overlap_Type # "Fully Overlapped"

TypesOf(tw) == [k \in 1..Len(tw) |-> tw[k].Overlap_Type]

\* C2: a trade that intersects another trade and is contained by none is
\* "Partially Overlapped", also when it contains other trades; X = days 1-10
\* and Y = days 3-5 give X partial and Y full; an open trade entered on day 1
\* with last_date 100 is partial against the closed trade 2-50.
C2_PartialWhenUncontained ==
    /\ Classified =>
          \A k \in 1..Len(trades_with_overlap) :
              (IntersectsSome(trades_with_overlap, k)
                  /\ ~ContainedBySome(trades_with_overlap, k))
              => trades_with_overlap[k].Overlap_Type = "Partially Overlapped"
    /\ TypesOf(classify_overlaps(
           <<TargetHitTrade(3, Price(100), 5, Price(105)),
             TargetHitTrade(1, Price(100), 10, Price(105))>>, 10))
         = <<"Partially Overlapped", "Fully Overlapped">>
    /\ TypesOf(classify_overlaps(
           <<OpenTrade(1, Price(100)),
             TargetHitTrade(2, Price(100), 50, Price(105))>>, 100))
         = <<"Partially Overlapped", "Fully Overlapped">>

C2_Witness ==
    /\ Classified
    /\ \E k, j \in 1..Len(trades_with_overlap) :
          /\ trades_with_overlap[k].Exit_Date = None
          /\ ContainedBy(trades_with_overlap, j, k)
          /\ ~ContainedBySome(trades_with_overlap, k)
          /\ trades_with_overlap[k].Overlap_Type = "Partially Overlapped"

StripType(r) == [f \in (DOMAIN r) \ {"Overlap_Type"} |-> r[f]]

\* C3: the result holds every input trade exactly once, each with exactly one
\* of the three overlap types, and a trade that intersects no other trade
\* (the sole trade of a list included) is "No Overlap".
C3_EveryTradeOnceOneType ==
    Classified =>
        /\ Len(trades_with_overlap) = Len(trades_list)
        /\ \E f \in Orderings(Len(trades_list)) :
              \A k \in 1..Len(trades_list) :
                  StripType(trades_with_overlap[k]) = trades_list[f[k]]
        /\ \A k \in 1..Len(trades_with_overlap) :
              /\ trades_with_overlap[k].Overlap_Type \in OverlapTypes
              /\ ~IntersectsSome(trades_with_overlap, k)
                    => trades_with_overlap[k].Overlap_Type = "No Overlap"

C3_Witness ==
    /\ Classified
    /\ \E k, j \in 1..Len(trades_with_overlap) :
          /\ k # j
          /\ trades_with_overlap[k].Entry_Date = trades_with_overlap[j].Entry_Date
    /\ \E k \in 1..Len(trades_with_overlap) :
          /\ ~IntersectsSome(trades_with_overlap, k)
          /\ trades_with_overlap[k].Overlap_Type = "No Overlap"

\* The type a comparison against all other trades, without a break, gives.
ReferenceType(tw, k) ==
    IF ContainedBySome(tw, k) THEN "Fully Overlapped"
    ELSE IF IntersectsSome(tw, k) THEN "Partially Overlapped"
    ELSE "No Overlap"

Occurrences(sq, r) == Cardinality({k \in 1..Len(sq) : sq[k] = r})

SameBag(a, b) ==
    /\ Len(a) = Len(b)
    /\ \A k \in 1..Len(a) : Occurrences(a, a[k]) = Occurrences(b, a[k])

\* C10: for every order of the same trades each trade gets the same type,
\* the one a comparison against all other trades without the break gives.
C10_OrderAndBreakIrrelevant ==
    Classified =>
        \A f \in Orderings(Len(trades_list)) :
            LET out == classify_overlaps(
                           [k \in 1..Len(trades_list) |-> trades_list[f[k]]],
                           last_date)
            IN /\ SameBag(out, trades_with_overlap)
               /\ \A k \in 1..Len(out) :
                     out[k].Overlap_Type = ReferenceType(out, k)

C10_Witness ==
    /\ Classified
    /\ trades_list # [k \in 1..Len(trades_list) |-> StripType(trades_with_overlap[k])]
    /\ \E k, j1, j2 \in 1..Len(trades_with_overlap) :
          /\ j1 < j2
          /\ IntersectedBy(trades_with_overlap, k, j1)
          /\ ~ContainedBy(trades_with_overlap, k, j1)
          /\ ContainedBy(trades_with_overlap, k, j2)
          /\ trades_with_overlap[k].Overlap_Type = "Fully Overlapped"

Scored == pc = "scored"

\* C4 as stated: the reported weighted score is the rounded sum of the
\* reported (2-decimal) normal and bonus scores.
C4_WeightedIsRoundedSumOfReported ==
    Scored => scores[3] = Round2(FAdd(scores[1], scores[2]))

\* C4, amended: the reported weighted score is the unrounded normal plus
\* unrounded bonus score rounded to 2 decimals, and so differs from the sum
\* of the two reported scores by at most 0.01.
C4_WeightedFromUnrounded ==
    Scored =>
        /\ scores[3] = Round2(FAdd(normal_score(counts), bonus_score(counts)))
        /\ LET diff == FSub(scores[3], FAdd(scores[1], scores[2]))
           IN ~FLt(Num(1, 100), diff) /\ ~FLt(diff, Num(-1, 100))

C4_Witness ==
    /\ Scored
    /\ scores[3] # Round2(FAdd(scores[1], scores[2]))

SixBuckets ==
    {"<=5_days", "5_to_10_days", "10_to_20_days", "20_to_30_days", ">30_days",
     "Never Hit"}

SixSum(c) ==
    FAdd(FAdd(FAdd(FAdd(FAdd(c["<=5_days"], c["5_to_10_days"]),
                        c["10_to_20_days"]), c["20_to_30_days"]),
              c[">30_days"]), c["Never Hit"])

C8_EmptyListAllZero ==
    (Scored /\ trades_with_overlap = <<>>) =>
        /\ total_trades = 0
        /\ \A key \in CountKeys : counts[key] = Num(0, 1)
        /\ scores = <<Num(0, 1), Num(0, 1), Num(0, 1)>>

C8_Witness ==
    /\ Scored
    /\ trades_with_overlap = <<>>
    /\ total_trades = 0

\* round(1.05 * close, 2) in hundredths, by integer arithmetic.
ClaimTarget(close) ==
    LET m == 105 * close
        q == m \div 100
        r == m % 100
    IN IF r > 50 THEN q + 1
       ELSE IF r < 50 THEN q
       ELSE IF q % 2 = 0 THEN q ELSE q + 1

LaterHits(bars, row) ==
    {j \in 1..Len(bars) : /\ bars[j].datetime > bars[row].datetime
                          /\ bars[j].high >= ClaimTarget(bars[row].close)}

Simulated == pc = "classify"

\* C6: for every entry bar the trade exits at the chronologically first
\* strictly later bar whose high reaches round(1.05 * entry close, 2), as
\* "Target Hit" with Holding Days = exit date - entry date; it is "Open Trade"
\* without exit fields exactly when no later bar reaches the target; every
\* exit lies strictly after its entry.
C6_ExitAtFirstLaterHit ==
    Simulated =>
        /\ Len(trades_list) = Len(entries)
        /\ \A k \in 1..Len(entries) :
              LET t == trades_list[k]
                  hits == LaterHits(df, entries[k])
              IN /\ t.Entry_Date = df[entries[k]].datetime
                 /\ (t.Outcome = "Open Trade") <=> (hits = {})
                 /\ t.Outcome \in {"Open Trade", "Target Hit"}
                 /\ hits = {} =>
                       /\ t.Exit_Date = None
                       /\ t.Exit_Hit_Price = None
                       /\ t.Holding_Days = None
                 /\ hits # {} =>
                       LET x == CHOOSE j \in hits :
                                   \A m \in hits : df[j].datetime <= df[m].datetime
                       IN /\ t.Exit_Date = df[x].datetime
                          /\ t.Exit_Hit_Price = Price(df[x].high)
                          /\ t.Holding_Days = t.Exit_Date - t.Entry_Date
                          /\ t.Entry_Date < t.Exit_Date

C6_Witness ==
    /\ Simulated
    /\ \E k \in 1..Len(entries) :
          /\ trades_list[k].Outcome = "Target Hit"
          /\ \E j \in 1..Len(df) :
                /\ df[j].datetime = trades_list[k].Exit_Date
                /\ j > entries[k] + 1
                /\ df[j].high = ClaimTarget(df[entries[k]].close)
                /\ trades_list[k].Holding_Days > j - entries[k]

\* Reached as well: an entry that no later bar resolves, before the last bar.
C6_OpenCase ==
    /\ Simulated
    /\ \E k \in 1..Len(entries) :
          /\ trades_list[k].Outcome = "Open Trade"
          /\ entries[k] < Len(df)

\* The 4-bar stochastic window ending at row j has zero range.
ZeroRange(bars, j) ==
    /\ j >= 4
    /\ MaxOf({bars[a].high : a \in (j - 3)..j})
          = MinOf({bars[a].low : a \in (j - 3)..j})

\* Row k's %K or %D reads a raw %K of a zero-range window.
ZeroRangeAffected(bars, k) ==
    \E j \in (k - 4)..k : j >= 1 /\ ZeroRange(bars, j)

\* The average loss over the last two changes is zero.
ZeroAverageLoss(bars, k) ==
    \A j \in {k - 1, k} : j >= 2 => bars[j].close >= bars[j - 1].close

UndefinedIndicator(bars, k) ==
    \/ k < 200
    \/ ZeroRangeAffected(bars, k)
    \/ ZeroAverageLoss(bars, k)

EntriesComputed == pc = "simulate"

\* C9: a bar with an undefined required indicator (fewer than 200 bars of
\* history, a zero-range stochastic window behind its %K or %D, a zero 2-bar
\* average loss) is no entry, and its entry condition evaluates to false.
C9_NoEntryOnUndefinedIndicator ==
    EntriesComputed =>
        \A k \in 1..Len(df) :
            UndefinedIndicator(df, k) =>
                /\ ~EntryCondition(df, k)
                /\ \A e \in 1..Len(entries) : entries[e] # k

\* Everything but the 200-bar average allows an entry at row k.
OnlyAverageMissing(bars, k) ==
    /\ k < 200
    /\ FLt(stochK(bars, k), Num(20, 1))
    /\ FLt(stochD(bars, k), Num(20, 1))
    /\ FLt(RSI_2(bars, k), Num(15, 1))

C9_Witness ==
    /\ EntriesComputed
    /\ entries # <<>>
    /\ \E k \in 1..Len(df) : OnlyAverageMissing(df, k)

\* Reached as well: a row at or after the 200th that fails only through a
\* zero-range window, and one that fails only through a zero average loss.
C9_ZeroRangeCase ==
    /\ EntriesComputed
    /\ \E k \in 200..Len(df) :
          /\ ZeroRangeAffected(df, k)
          /\ ~ZeroAverageLoss(df, k)
          /\ FLt(RSI_2(df, k), Num(15, 1))
          /\ FGt(Price(df[k].close), DMA200(df, k))

C9_ZeroLossCase ==
    /\ EntriesComputed
    /\ \E k \in 200..Len(df) :
          /\ ZeroAverageLoss(df, k)
          /\ ~ZeroRangeAffected(df, k)
          /\ FLt(stochK(df, k), Num(20, 1))
          /\ FLt(stochD(df, k), Num(20, 1))
          /\ FGt(Price(df[k].close), DMA200(df, k))

OkEntries == {k \in 1..Len(visited) : visited[k].outcome = "ok"}

BatchDone == pc = "done" /\ logged_in

EverySymbolVisited ==
    /\ i = Len(symbols)
    /\ Len(visited) = Len(symbols)
    /\ \A k \in 1..Len(symbols) : visited[k].symbol = symbols[k]

OneRecordPerCompletedEntry ==
    /\ Len(summary) = Cardinality(OkEntries)
    /\ \A j \in 1..Len(summary) : summary[j].Stock = symbols[InOrder(OkEntries)[j]]

\* C7 as stated: every symbol is visited, and the summary holds one record
\* and trade_logs one entry for each completed list entry, none for the
\* others.
C7_OneLogPerCompletedEntry ==
    BatchDone =>
        /\ EverySymbolVisited
        /\ OneRecordPerCompletedEntry
        /\ Cardinality(DOMAIN trade_logs) = Cardinality(OkEntries)

\* C7, amended: every symbol is visited whatever the outcomes; the summary
\* holds one record per completed list entry, in list order, and none for the
\* others; trade_logs holds one entry per distinct symbol with a completed
\* list entry, the classified trades of the last such entry.
C7_FailuresIsolated ==
    BatchDone =>
        /\ EverySymbolVisited
        /\ OneRecordPerCompletedEntry
        /\ DOMAIN trade_logs = {symbols[k] : k \in OkEntries}
        /\ \A sym \in DOMAIN trade_logs :
              LET last == MaxOf({j \in 1..Len(summary) : summary[j].Stock = sym})
              IN /\ summary[last] = SummaryRecord(sym, trade_logs[sym])
                 /\ \A k \in 1..Len(trade_logs[sym]) :
                       trade_logs[sym][k].Overlap_Type \in OverlapTypes

C7_Witness ==
    /\ BatchDone
    /\ \E a, b, c \in 1..Len(visited) :
          /\ a < b /\ b < c
          /\ visited[a].outcome = "ok"
          /\ visited[b].outcome = "error"
          /\ visited[c].outcome = "ok"
          /\ symbols[a] = symbols[c]
          /\ summary[1] # summary[2]

====
